---------------------------- MODULE Spec2Model ----------------------------
(***************************************************************************)
(* Model of scripts/kendalls_tau.py: the da-RR formulation of Kendall's    *)
(* tau.  kendalls_tau_darr groups a table of records, forms the pairs of   *)
(* every group, ranks the two human scores (with a significance threshold) *)
(* and the two metric scores, classifies every pair with the comparison    *)
(* table "variant B", counts the classifications and divides.              *)
(*                                                                         *)
(* A DataFrame is a sequence of rows.  A row carries its index label, its  *)
(* group key (question_id, user_id), its human score and its metric score. *)
(* The field "row" is the identity of the physical row; the program never  *)
(* reads it, it only serves to state which rows a pair was made of.        *)
(* Scores are integers; tau is kept as the exact fraction num/den, of      *)
(* which the float the program returns is a function.                      *)
(***************************************************************************)
EXTENDS Integers, Sequences, FiniteSets, TLC

VARIABLES
    df,             \* the table passed to kendalls_tau_darr
    threshold,      \* the threshold passed to kendalls_tau_darr
    pc,             \* position in kendalls_tau_darr (or in the pair pipeline)
    groups,         \* group keys still to be iterated (grouped.groups)
    current_group,  \* rows of the group being processed
    pairs,          \* index-label pairs of the group still to be processed
    pair_types,     \* outcomes of the pairs of the group processed so far
    counts,         \* the Counter
    human_scores,   \* human scores of the rows selected for the last pair
    metric_scores,  \* metric scores of the rows selected for the last pair
    human_ranks,    \* result of compute_human_ranks for the last pair
    metric_ranks,   \* result of Series.rank(method="min") for the last pair
    pair_type,      \* result of compute_rank_pair_type for the last pair
    evaluated,      \* history: for each classified pair, the set of rows it was made of
    result,         \* the returned mapping, or NoResult
    error           \* the exception that ended the call, or "none"

vars == <<df, threshold, pc, groups, current_group, pairs, pair_types, counts,
          human_scores, metric_scores, human_ranks, metric_ranks, pair_type,
          evaluated, result, error>>

---------------------------------------------------------------------------
(* Bounds of the model *)

MaxRecords == 4
MaxScore == 3
MaxMetric == 1
MaxThreshold == 2

(* The default threshold of kendalls_tau_darr and compute_human_ranks *)
DefaultThreshold == 25

(* The (human score, metric score) of a row of a table.  With the default  *)
(* threshold, two of these rows are a human tie of equal scores, a human    *)
(* tie of different scores (40, 50), or strictly ordered with the metric    *)
(* scores equal, ordered the same way or ordered the other way.             *)
ScoreValues == {<<40, 3>>, <<50, 5>>, <<90, 3>>, <<90, 5>>}
KeyValues == {<<1, 2>>, <<2, 1>>}
Thresholds == {DefaultThreshold}

NoResult == [none |-> TRUE]
Outcomes == {"c", "d", "t", "-"}

---------------------------------------------------------------------------
(* Helpers *)

Abs(x) == IF x < 0 THEN -x ELSE x

Range(s) == {s[i] : i \in 1..Len(s)}

Column(rows, col) == [i \in 1..Len(rows) |-> rows[i][col]]

---------------------------------------------------------------------------
(* compute_human_ranks *)

(* The assertion of line 24; a call that violates it raises AssertionError. *)
scores_are_a_pair(scores) == Len(scores) = 2

(* compute_human_ranks with the ranks of an ordered pair exchanged *)
compute_human_ranks_inverted(scores, th) ==
    LET a == scores[1]
        b == scores[2]
    IN  IF (a = b) \/ Abs(a - b) < th THEN <<1, 1>>
        ELSE IF a > b THEN <<2, 1>>
        ELSE <<1, 2>>

(* compute_human_ranks with <= in place of < *)
compute_human_ranks_inclusive(scores, th) ==
    LET a == scores[1]
        b == scores[2]
    IN  IF (a = b) \/ Abs(a - b) <= th THEN <<1, 1>>
        ELSE IF a > b THEN <<1, 2>>
        ELSE <<2, 1>>

compute_human_ranks(scores, th) ==
    LET a == scores[1]
        b == scores[2]
    IN  IF (a = b) \/ Abs(a - b) < th THEN <<1, 1>>
        ELSE IF a > b THEN <<1, 2>>
        ELSE <<2, 1>>

(* Series.rank(method="first"): equal scores are ranked in the order of the rows *)
rank_first(scores) ==
    [i \in 1..Len(scores) |->
        1 + Cardinality({j \in 1..Len(scores) :
                            scores[j] < scores[i] \/ (scores[j] = scores[i] /\ j < i)})]

(* Series.rank(method="min"): ascending, the lowest score has rank 1, equal *)
(* scores share the lowest rank of their run.                               *)
rank_min(scores) ==
    [i \in 1..Len(scores) |->
        1 + Cardinality({j \in 1..Len(scores) : scores[j] < scores[i]})]

---------------------------------------------------------------------------
(* get_index_pairs *)

RECURSIVE combinations2(_, _, _)
combinations2(s, i, j) ==
    IF i >= Len(s) THEN <<>>
    ELSE IF j > Len(s) THEN combinations2(s, i + 1, i + 2)
    ELSE << <<s[i], s[j]>> >> \o combinations2(s, i, j + 1)

get_index_pairs(rows) ==
    SelectSeq(combinations2(Column(rows, "index"), 1, 2),
              LAMBDA pair : pair[1] # pair[2])

---------------------------------------------------------------------------
(* comparison tables and compute_rank_pair_type *)

comparison_variant_c ==
    << <<"lt", "lt", "c">>,
       <<"lt", "eq", "d">>,
       <<"lt", "gt", "d">>,
       <<"gt", "lt", "d">>,
       <<"gt", "eq", "d">>,
       <<"gt", "gt", "c">> >>

comparison_variant_d ==
    << <<"lt", "lt", "c">>,
       <<"lt", "eq", "t">>,
       <<"lt", "gt", "d">>,
       <<"eq", "lt", "t">>,
       <<"eq", "eq", "c">>,
       <<"eq", "gt", "t">>,
       <<"gt", "lt", "d">>,
       <<"gt", "eq", "t">>,
       <<"gt", "gt", "c">> >>

comparison_variant_b ==
    << <<"lt", "lt", "c">>,
       <<"lt", "eq", "t">>,
       <<"lt", "gt", "d">>,
       <<"gt", "lt", "d">>,
       <<"gt", "eq", "t">>,
       <<"gt", "gt", "c">> >>

Apply(op, ranking) ==
    CASE op = "lt" -> ranking[1] < ranking[2]
      [] op = "eq" -> ranking[1] = ranking[2]
      [] op = "gt" -> ranking[1] > ranking[2]

compute_rank_pair_type(human_ranking, metric_ranking) ==
    LET comparison_table == comparison_variant_b
        Matches == {k \in 1..Len(comparison_table) :
                        /\ Apply(comparison_table[k][1], human_ranking)
                        /\ Apply(comparison_table[k][2], metric_ranking)}
    IN  IF Matches = {} THEN "-"
        ELSE comparison_table[CHOOSE k \in Matches : \A l \in Matches : k <= l][3]

---------------------------------------------------------------------------
(* DataFrame.groupby: the keys in sorted order, and the rows of one group *)

KeyLess(k1, k2) == k1[1] < k2[1] \/ (k1[1] = k2[1] /\ k1[2] < k2[2])

RECURSIVE SortedKeys(_)
SortedKeys(S) ==
    IF S = {} THEN <<>>
    ELSE LET m == CHOOSE k \in S : \A o \in S \ {k} : KeyLess(k, o)
         IN  <<m>> \o SortedKeys(S \ {m})

groupby(table) == SortedKeys({table[i].key : i \in 1..Len(table)})

get_group(table, key) == SelectSeq(table, LAMBDA r : r.key = key)

(* current_group[current_group.index.isin(pair)] *)
pair_rows(group, pair) == SelectSeq(group, LAMBDA r : r.index \in {pair[1], pair[2]})

---------------------------------------------------------------------------
(* Counter *)

EmptyCounter == [o \in Outcomes |-> 0]

Occurrences(s, o) == Cardinality({i \in 1..Len(s) : s[i] = o})

CounterUpdate(c, types) == [o \in Outcomes |-> c[o] + Occurrences(types, o)]

---------------------------------------------------------------------------
(* kendalls_tau_darr, step by step *)

(* The division of lines 145-147: the exact quotient, or ZeroDivisionError. *)
(* the division with the ties left out of the denominator *)
tau_without_ties(concordant_pairs, discordant_pairs, ties) ==
    [num |-> concordant_pairs - discordant_pairs,
     den |-> concordant_pairs + discordant_pairs]

tau_of(concordant_pairs, discordant_pairs, ties) ==
    [num |-> concordant_pairs - discordant_pairs,
     den |-> concordant_pairs + discordant_pairs + ties]

return_value(c) ==
    [tau        |-> tau_of(c["c"], c["d"], c["t"]),
     concordant |-> c["c"],
     discordant |-> c["d"],
     ties       |-> c["t"]]

(* Tables: n rows, the index labels those of frames of `period` rows each *)
(* concatenated (period >= n is the default RangeIndex, labels unique).    *)
RowValues == [key : KeyValues, scores : ScoreValues]

MakeTable(n, f, period) ==
    [i \in 1..n |-> [row    |-> i,
                     index  |-> (i - 1) % period,
                     key    |-> f[i].key,
                     human  |-> f[i].scores[1],
                     metric |-> f[i].scores[2]]]

Init ==
    /\ \E n \in 0..MaxRecords, period \in 1..MaxRecords :
          \E f \in [1..n -> RowValues] : df = MakeTable(n, f, period)
    /\ threshold \in Thresholds
    /\ pc = "start"
    /\ groups = <<>>
    /\ current_group = <<>>
    /\ pairs = <<>>
    /\ pair_types = <<>>
    /\ counts = EmptyCounter
    /\ human_scores = <<>>
    /\ metric_scores = <<>>
    /\ human_ranks = <<>>
    /\ metric_ranks = <<>>
    /\ pair_type = "none"
    /\ evaluated = <<>>
    /\ result = NoResult
    /\ error = "none"

(* lines 124-125 *)
GroupBy ==
    /\ pc = "start"
    /\ counts' = EmptyCounter
    /\ groups' = groupby(df)
    /\ pc' = "for_group"
    /\ UNCHANGED <<df, threshold, current_group, pairs, pair_types, human_scores,
                   metric_scores, human_ranks, metric_ranks, pair_type, evaluated,
                   result, error>>

(* lines 126-129 *)
NextGroup ==
    /\ pc = "for_group"
    /\ groups # <<>>
    /\ current_group' = get_group(df, Head(groups))
    /\ groups' = Tail(groups)
    /\ pairs' = get_index_pairs(current_group')
    /\ pair_types' = <<>>
    /\ pc' = "for_pair"
    /\ UNCHANGED <<df, threshold, counts, human_scores, metric_scores, human_ranks,
                   metric_ranks, pair_type, evaluated, result, error>>

(* lines 130-139 *)
EvalPair ==
    /\ pc = "for_pair"
    /\ pairs # <<>>
    /\ LET pair_df == pair_rows(current_group, Head(pairs))
       IN  /\ human_scores' = Column(pair_df, "human")
           /\ metric_scores' = Column(pair_df, "metric")
           /\ IF scores_are_a_pair(human_scores')
              THEN /\ human_ranks' = compute_human_ranks(human_scores', threshold)
                   /\ metric_ranks' = rank_min(metric_scores')
                   /\ pair_type' = compute_rank_pair_type(human_ranks', metric_ranks')
                   /\ pair_types' = Append(pair_types, pair_type')
                   /\ evaluated' = Append(evaluated, {pair_df[i].row : i \in 1..Len(pair_df)})
                   /\ pairs' = Tail(pairs)
                   /\ UNCHANGED <<pc, error>>
              ELSE /\ error' = "AssertionError"
                   /\ pc' = "raised"
                   /\ UNCHANGED <<human_ranks, metric_ranks, pair_type, pair_types,
                                  evaluated, pairs>>
    /\ UNCHANGED <<df, threshold, groups, current_group, counts, result>>

(* line 141 *)
UpdateCounts ==
    /\ pc = "for_pair"
    /\ pairs = <<>>
    /\ counts' = CounterUpdate(counts, pair_types)
    /\ pc' = "for_group"
    /\ UNCHANGED <<df, threshold, groups, current_group, pairs, pair_types, human_scores,
                   metric_scores, human_ranks, metric_ranks, pair_type, evaluated,
                   result, error>>

(* lines 142-153 *)
ComputeTau ==
    /\ pc = "for_group"
    /\ groups = <<>>
    /\ IF tau_of(counts["c"], counts["d"], counts["t"]).den = 0
       THEN /\ error' = "ZeroDivisionError"
            /\ pc' = "raised"
            /\ UNCHANGED result
       ELSE /\ result' = return_value(counts)
            /\ pc' = "done"
            /\ UNCHANGED error
    /\ UNCHANGED <<df, threshold, groups, current_group, pairs, pair_types, counts,
                   human_scores, metric_scores, human_ranks, metric_ranks, pair_type,
                   evaluated>>

Next == GroupBy \/ NextGroup \/ EvalPair \/ UpdateCounts \/ ComputeTau

Spec == Init /\ [][Next]_vars

---------------------------------------------------------------------------
(* The pipeline of one pair (lines 135-138) on its own: the two human      *)
(* scores, the two metric scores and the threshold are the inputs.         *)

InitPair ==
    /\ human_scores \in [1..2 -> 0..MaxScore]
    /\ metric_scores \in [1..2 -> 0..MaxMetric]
    /\ threshold \in (-1)..MaxThreshold
    /\ pc = "pair_call"
    /\ df = <<>>
    /\ groups = <<>>
    /\ current_group = <<>>
    /\ pairs = <<>>
    /\ pair_types = <<>>
    /\ counts = EmptyCounter
    /\ human_ranks = <<>>
    /\ metric_ranks = <<>>
    /\ pair_type = "none"
    /\ evaluated = <<>>
    /\ result = NoResult
    /\ error = "none"

(* line 135 *)
PairHumanRanks ==
    /\ pc = "pair_call"
    /\ scores_are_a_pair(human_scores)
    /\ human_ranks' = compute_human_ranks(human_scores, threshold)
    /\ pc' = "pair_human"
    /\ UNCHANGED <<df, threshold, groups, current_group, pairs, pair_types, counts,
                   human_scores, metric_scores, metric_ranks, pair_type, evaluated,
                   result, error>>

(* line 136 *)
PairMetricRanks ==
    /\ pc = "pair_human"
    /\ metric_ranks' = rank_min(metric_scores)
    /\ pc' = "pair_metric"
    /\ UNCHANGED <<df, threshold, groups, current_group, pairs, pair_types, counts,
                   human_scores, metric_scores, human_ranks, pair_type, evaluated,
                   result, error>>

(* line 138 *)
PairClassify ==
    /\ pc = "pair_metric"
    /\ pair_type' = compute_rank_pair_type(human_ranks, metric_ranks)
    /\ pc' = "pair_done"
    /\ UNCHANGED <<df, threshold, groups, current_group, pairs, pair_types, counts,
                   human_scores, metric_scores, human_ranks, metric_ranks, evaluated,
                   result, error>>

NextPair == PairHumanRanks \/ PairMetricRanks \/ PairClassify

SpecPair == InitPair /\ [][NextPair]_vars

---------------------------------------------------------------------------
(* kendalls_tau_darr as a function of its arguments: the same loops, run   *)
(* to the end.  The order in which the groups are iterated is a parameter; *)
(* the program iterates them in the order of groupby.                      *)

RECURSIVE pair_loop(_, _, _, _)
pair_loop(group, th, ps, types) ==
    IF ps = <<>> THEN [error |-> "none", pair_types |-> types]
    ELSE LET pair_df == pair_rows(group, Head(ps))
             hs == Column(pair_df, "human")
             ms == Column(pair_df, "metric")
         IN  IF ~scores_are_a_pair(hs)
             THEN [error |-> "AssertionError", pair_types |-> types]
             ELSE pair_loop(group, th, Tail(ps),
                      Append(types,
                             compute_rank_pair_type(compute_human_ranks(hs, th),
                                                    rank_min(ms))))

RECURSIVE group_loop(_, _, _, _)
group_loop(table, th, keys, c) ==
    IF keys = <<>> THEN [error |-> "none", counts |-> c]
    ELSE LET group == get_group(table, Head(keys))
             r == pair_loop(group, th, get_index_pairs(group), <<>>)
         IN  IF r.error # "none" THEN [error |-> r.error, counts |-> c]
             ELSE group_loop(table, th, Tail(keys), CounterUpdate(c, r.pair_types))

kendalls_tau_darr_in_order(table, th, keys) ==
    LET r == group_loop(table, th, keys, EmptyCounter)
    IN  IF r.error # "none" THEN [error |-> r.error, result |-> NoResult]
        ELSE IF tau_of(r.counts["c"], r.counts["d"], r.counts["t"]).den = 0
        THEN [error |-> "ZeroDivisionError", result |-> NoResult]
        ELSE [error |-> "none", result |-> return_value(r.counts)]

kendalls_tau_darr(table, th) == kendalls_tau_darr_in_order(table, th, groupby(table))

---------------------------------------------------------------------------
(* Properties *)

Terminal == pc \in {"done", "raised"}

RankPairs == {<<1, 1>>, <<1, 2>>, <<2, 1>>}

HumanTie(a, b, th) == (a = b) \/ Abs(a - b) < th

(* C1: for a table of one group of two records whose first human score     *)
(* exceeds the second by at least the threshold and whose first metric     *)
(* score is the higher one, kendalls_tau_darr returns concordant = 1,      *)
(* discordant = 0, ties = 0 and tau = 1.                                   *)
C1_ConcordantPair ==
    (/\ Terminal
     /\ Len(df) = 2
     /\ df[1].key = df[2].key
     /\ df[1].index # df[2].index
     /\ df[1].human - df[2].human >= threshold
     /\ df[1].metric > df[2].metric)
    => /\ pc = "done"
       /\ result.concordant = 1
       /\ result.discordant = 0
       /\ result.ties = 0
       /\ result.tau.num = result.tau.den

(* C2: compute_human_ranks returns (1,1) exactly when a = b or             *)
(* |a - b| < threshold, otherwise (1,2) when a > b and (2,1) when a < b;   *)
(* the result is one of (1,1), (1,2), (2,1) and the strictly higher score  *)
(* holds rank 1.                                                           *)
C2_HumanRanks ==
    pc \in {"pair_human", "pair_metric", "pair_done"} =>
        LET a == human_scores[1]
            b == human_scores[2]
        IN  /\ human_ranks \in RankPairs
            /\ (human_ranks = <<1, 1>>) <=> HumanTie(a, b, threshold)
            /\ (~HumanTie(a, b, threshold) /\ a > b) => human_ranks = <<1, 2>>
            /\ (~HumanTie(a, b, threshold) /\ a < b) => human_ranks = <<2, 1>>
            /\ (a > b) => human_ranks[1] = 1
            /\ (a < b) => human_ranks[2] = 1

C2_Witness ==
    /\ pc = "pair_human"
    /\ human_scores[1] < human_scores[2]
    /\ threshold > 0
    /\ human_ranks = <<2, 1>>

(* C3, as claimed: for every non-negative threshold and all scores with    *)
(* |a - b| = threshold, compute_human_ranks never returns (1,1).           *)
C3_BoundaryNeverTied ==
    (/\ pc \in {"pair_human", "pair_metric", "pair_done"}
     /\ threshold >= 0
     /\ Abs(human_scores[1] - human_scores[2]) = threshold)
    => human_ranks \in {<<1, 2>>, <<2, 1>>}

(* C3, amended: for every non-negative threshold and all scores with       *)
(* |a - b| = threshold, compute_human_ranks returns (1,2) or (2,1) when    *)
(* a # b, and (1,1) when a = b (which is the case of threshold 0).         *)
C3_BoundaryTiedOnlyWhenEqual ==
    (/\ pc \in {"pair_human", "pair_metric", "pair_done"}
     /\ threshold >= 0
     /\ Abs(human_scores[1] - human_scores[2]) = threshold)
    => IF human_scores[1] # human_scores[2]
       THEN human_ranks \in {<<1, 2>>, <<2, 1>>}
       ELSE human_ranks = <<1, 1>>

C3_Witness ==
    /\ pc = "pair_human"
    /\ human_scores[1] # human_scores[2]
    /\ Abs(human_scores[1] - human_scores[2]) = threshold
    /\ human_ranks = <<1, 2>>

(* C4: on rank pairs among (1,1), (1,2), (2,1), compute_rank_pair_type     *)
(* returns "c" when both are ordered the same way, "d" when they are       *)
(* ordered oppositely, "t" when the human ranks are ordered and the metric *)
(* ranks equal, and "-" whenever the human ranks are tied.                 *)
C4_VariantBTable ==
    pc = "pair_done" =>
        /\ human_ranks \in RankPairs
        /\ metric_ranks \in RankPairs
        /\ pair_type =
              IF human_ranks[1] = human_ranks[2] THEN "-"
              ELSE IF metric_ranks[1] = metric_ranks[2] THEN "t"
              ELSE IF (human_ranks[1] < human_ranks[2]) = (metric_ranks[1] < metric_ranks[2])
                   THEN "c"
              ELSE "d"

C4_Witness ==
    /\ pc = "pair_done"
    /\ human_ranks = <<1, 1>>
    /\ metric_ranks = <<2, 1>>
    /\ pair_type = "-"

SameGroupPairs(table) ==
    {{table[i].row, table[j].row} : <<i, j>> \in
        {p \in (1..Len(table)) \X (1..Len(table)) :
            p[1] < p[2] /\ table[p[1]].key = table[p[2]].key}}

RECURSIVE SumOfPairs(_, _)
SumOfPairs(table, keys) ==
    IF keys = <<>> THEN 0
    ELSE LET n == Len(get_group(table, Head(keys)))
         IN  (n * (n - 1)) \div 2 + SumOfPairs(table, Tail(keys))

(* C5: kendalls_tau_darr evaluates each unordered pair of distinct records *)
(* of the same group exactly once, and nothing else, so that the outcomes  *)
(* counted over the run are the sum over the groups of n*(n-1)/2.          *)
C5_EachPairOnce ==
    Terminal =>
        /\ \A k \in 1..Len(evaluated) : evaluated[k] \in SameGroupPairs(df)
        /\ \A k, l \in 1..Len(evaluated) : evaluated[k] = evaluated[l] => k = l
        /\ Range(evaluated) = SameGroupPairs(df)
        /\ counts["c"] + counts["d"] + counts["t"] + counts["-"]
              = SumOfPairs(df, groupby(df))

(* With index labels that are unique inside every group the pairs are as   *)
(* C5 states them: the failures of C5_EachPairOnce are those of tables     *)
(* whose index labels repeat inside a group.                               *)
UniqueIndexInGroups(table) ==
    \A i, j \in 1..Len(table) :
        (i < j /\ table[i].key = table[j].key) => table[i].index # table[j].index

UniqueIndex_EachPairOnce ==
    (Terminal /\ UniqueIndexInGroups(df)) =>
        /\ error # "AssertionError"
        /\ \A k, l \in 1..Len(evaluated) : evaluated[k] = evaluated[l] => k = l
        /\ Range(evaluated) = SameGroupPairs(df)
        /\ counts["c"] + counts["d"] + counts["t"] + counts["-"]
              = SumOfPairs(df, groupby(df))

NoComparablePair(table, th) ==
    \A i, j \in 1..Len(table) :
        (i < j /\ table[i].key = table[j].key)
            => HumanTie(table[i].human, table[j].human, th)

(* C7: when every group has fewer than 2 records or every pair is a human  *)
(* tie, kendalls_tau_darr ends with a division-by-zero error and returns   *)
(* no result.                                                              *)
C7_ZeroDivision ==
    (Terminal /\ NoComparablePair(df, threshold))
        => /\ pc = "raised"
           /\ error = "ZeroDivisionError"
           /\ result = NoResult

(* With index labels that are unique inside every group the failure is the *)
(* division by zero: the failures of C7_ZeroDivision are assertion         *)
(* failures of tables whose index labels repeat inside a group.            *)
UniqueIndex_ZeroDivision ==
    (Terminal /\ UniqueIndexInGroups(df) /\ NoComparablePair(df, threshold))
        => /\ pc = "raised"
           /\ error = "ZeroDivisionError"
           /\ result = NoResult

SwapRows(table, i) ==
    [k \in 1..Len(table) |->
        IF k = i THEN table[i + 1] ELSE IF k = i + 1 THEN table[i] ELSE table[k]]

Orders(s) == {t \in [1..Len(s) -> Range(s)] : Range(t) = Range(s)}

Reverse(s) == [k \in 1..Len(s) |-> s[Len(s) + 1 - k]]

(* C8: the outcome of kendalls_tau_darr is the same for every order in     *)
(* which the groups are processed and for every order of the rows (every   *)
(* exchange of two neighbouring rows; these generate all orders), and a    *)
(* pair classifies the same with its two records exchanged.                *)
C8_OrderIndependent ==
    /\ Terminal =>
          \A keys \in Orders(groupby(df)) :
              /\ kendalls_tau_darr_in_order(df, threshold, keys)
                    = [error |-> error, result |-> result]
              /\ \A i \in 1..(Len(df) - 1) :
                    kendalls_tau_darr_in_order(SwapRows(df, i), threshold, keys)
                        = [error |-> error, result |-> result]
    /\ (pc = "for_pair" /\ pair_type # "none") =>
          compute_rank_pair_type(
              compute_human_ranks(Reverse(human_scores), threshold),
              rank_min(Reverse(metric_scores))) = pair_type

C8_Witness ==
    /\ pc = "done"
    /\ Len(groupby(df)) = 2
    /\ \A k \in KeyValues : Len(get_group(df, k)) = 2
    /\ result.concordant = 1
    /\ result.ties = 1

(* C9: the returned tau is |concordant - discordant| /                     *)
(* |concordant + discordant + ties|, hence never negative.                 *)
C9_TauIsAbsolute ==
    pc = "done" =>
        /\ result.tau.num * Abs(result.concordant + result.discordant + result.ties)
              = Abs(result.concordant - result.discordant) * result.tau.den
        /\ result.tau.num * result.tau.den >= 0

NegateMetric(table) ==
    [k \in 1..Len(table) |-> [table[k] EXCEPT !.metric = -table[k].metric]]

============================================================================
